---- MODULE Spec2Model ----
(***************************************************************************)
(* DissMatch: students are matched to supervisors on a shared area by a    *)
(* binary linear program (src/DissMatch.py).  The script is one batch      *)
(* pipeline: load and normalise the two sheets, build the model (variables,*)
(* satisfaction weights, objective, constraints), solve, export the        *)
(* matches, and recompute the report figures.                              *)
(*                                                                         *)
(* A cell of a sheet is a record [type, val]: a Python str is              *)
(* [type |-> "str", val |-> <<characters>>], a missing cell is the float   *)
(* NaN, and a numeric cell is an int.                                      *)
(***************************************************************************)
EXTENDS Integers, Sequences, FiniteSets, TLC

\* ------------------------------------------------------------------ bounds
\* longest enumerated raw text handed to normalize_area
MaxLen == 2
\* most leading proposal_ cells a student row fills in a full run
MaxProposals == 2
\* most leading area cells a supervisor row fills in a full run
MaxSupervisorAreas == 1
\* largest workload of a supervisor
MaxWorkload == 1
\* number of proposal_ columns of the students sheet (data dependent)
NumProposalCols == 3

\* ------------------------------------------------------- program constants
\* area1 .. area5
NumAreaCols == 5
StudentFirst == 10
StudentSecond == 7
StudentThird == 5
StudentPenalty == 10
SupervisorFirst == 5
SupervisorSecond == 4
SupervisorThird == 3
SupervisorFourth == 2
SupervisorFifth == 1
SupervisorPenalty == 10
\* the weight tested by the eligibility constraint of step 9, as -Forbidden
Forbidden == 20

\* ------------------------------------------------------------------- values
Str(s) == [type |-> "str", val |-> s]
NaN == [type |-> "float", val |-> <<"n", "a", "n">>]
IntCell == [type |-> "int", val |-> <<"7">>]
\* varValue of a variable that no solve has set
None == 0 - 1

isinstance_str(text) == text.type = "str"
notnull(cell) == cell # NaN

\* ------------------------------------------------------------ normalize_area
Digits == {"0", "1", "2", "7"}
Whitespace == {" ", "\t"}
\* the character class [\s\d\.,]
StripClass == Whitespace \cup Digits \cup {".", ","}

\* str.lower() on the letters that occur
lower_char(c) ==
  CASE c = "A" -> "a"
    [] c = "B" -> "b"
    [] c = "E" -> "e"
    [] c = "R" -> "r"
    [] OTHER -> c

RECURSIVE MatchLen(_)
\* length of the longest prefix of s matched by [\s\d\.,]+ (0: no match here)
MatchLen(s) ==
  IF s = <<>> \/ Head(s) \notin StripClass THEN 0 ELSE 1 + MatchLen(Tail(s))

RECURSIVE re_sub(_)
\* re.sub(r'[\s\d\.,]+', '', s): every maximal match is replaced by ''
re_sub(s) ==
  IF s = <<>> THEN <<>>
  ELSE LET n == MatchLen(s) IN
       IF n > 0 THEN re_sub(SubSeq(s, n + 1, Len(s)))
       ELSE <<Head(s)>> \o re_sub(Tail(s))

str_lower(s) == [i \in 1..Len(s) |-> lower_char(s[i])]

\* faulty variant: the result is not lowercased
normalize_area_no_lower(text) ==
  IF isinstance_str(text) THEN Str(re_sub(text.val)) ELSE text

normalize_area(text) ==
  IF isinstance_str(text) THEN Str(str_lower(re_sub(text.val))) ELSE text

\* ------------------------------------------------------------------- inputs
\* the name columns of the two sheets, in row order
student_names == <<"Alice", "Bob">>
supervisor_names == <<"Prof. Smith", "Prof. Lee">>
Students == {student_names[i] : i \in 1..Len(student_names)}
Supervisors == {supervisor_names[i] : i \in 1..Len(supervisor_names)}
\* raw labels of the two sheets: the same two areas, numbered differently
SupervisorLabels == {Str(<<"1", ".", " ", "A">>), Str(<<"2", ".", " ", "B">>)}
StudentLabels == {Str(<<"a", ",", "2">>), Str(<<"B", " ">>)}

Min(a, b) == IF a < b THEN a ELSE b

\* rows of n cells whose first j <= k cells are filled and the rest missing
PrefixRows(n, k, labels) ==
  UNION {{[i \in 1..n |-> IF i <= j THEN f[i] ELSE NaN] : f \in [1..j -> labels]} :
         j \in 0..Min(k, n)}
\* rows of n cells, each filled or missing
AllRows(n, labels) == [1..n -> labels \cup {NaN}]
EmptyRow(n) == [i \in 1..n |-> NaN]

VARIABLES
  pc,                      \* the step of the script that runs next
  supervisors, students,   \* sheet 0 and sheet 1 of the Excel file
  workload, areas, supervisor_preferences, student_preferences,
  x_keys,                  \* the keys of the dict x, in the order of creation
  satisfaction,            \* satisfaction[i]: the weight of the edge x_keys[i]
  forced_zero,             \* the variables of the constraints x == 0 of step 9
  status, varValue, objective,
  results,                 \* the rows written to the sheet "matches"
  total_satisfaction, assigned_count, student_hist, unmatched,
  supervisors_with_capacity,
  text, other_text, out, out_twice, other_out   \* normalize_area on its own

pipeline_vars ==
  <<pc, supervisors, students, workload, areas, supervisor_preferences,
    student_preferences, x_keys, satisfaction, forced_zero, status, varValue,
    objective, results, total_satisfaction, assigned_count, student_hist,
    unmatched, supervisors_with_capacity>>
norm_vars == <<text, other_text, out, out_twice, other_out>>
vars == <<pipeline_vars, norm_vars>>

\* ------------------------------------------------------ steps 1-2: load data
\* [normalize_area(row[col]) for col in cols if pd.notnull(row[col])]
Preferences(row) ==
  LET kept == SelectSeq(row, notnull)
  IN  [i \in 1..Len(kept) |-> normalize_area(kept[i])]

RECURSIVE list_of(_)
\* list(set): the elements of S in some order
list_of(S) ==
  IF S = {} THEN <<>>
  ELSE LET e == CHOOSE u \in S : TRUE IN <<e>> \o list_of(S \ {e})

Load ==
  /\ pc = "load"
  /\ workload' = [p \in Supervisors |-> supervisors[p].workload]
  /\ areas' = list_of({normalize_area(supervisors[p].area[i]) :
                 <<p, i>> \in {q \in Supervisors \X (1..NumAreaCols) :
                                 notnull(supervisors[q[1]].area[q[2]])}})
  /\ supervisor_preferences' =
       [p \in Supervisors |-> Preferences(supervisors[p].area)]
  /\ student_preferences' = [s \in Students |-> Preferences(students[s])]
  /\ pc' = "build"
  /\ UNCHANGED <<supervisors, students, x_keys, satisfaction, forced_zero,
                 status, varValue, objective, results, total_satisfaction,
                 assigned_count, student_hist, unmatched,
                 supervisors_with_capacity, norm_vars>>

\* ------------------------------------------------- steps 3-9: build the model
\* step 4: one binary variable per (student, supervisor, area), in loop order
Triples ==
  LET nP == Len(supervisor_names)
      nA == Len(areas)
  IN  [i \in 1..(Len(student_names) * nP * nA) |->
         <<student_names[((i - 1) \div (nP * nA)) + 1],
           supervisor_names[(((i - 1) \div nA) % nP) + 1],
           areas[((i - 1) % nA) + 1]>>]

\* faulty variant: an area the student did not name costs nothing
student_points_no_penalty(student, area) ==
  LET prefs == student_preferences[student] IN
  IF Len(prefs) > 0 /\ area = prefs[1] THEN StudentFirst
  ELSE IF Len(prefs) > 1 /\ area = prefs[2] THEN StudentSecond
  ELSE IF Len(prefs) > 2 /\ area = prefs[3] THEN StudentThird
  ELSE 0

student_points(student, area) ==
  LET prefs == student_preferences[student] IN
  IF Len(prefs) > 0 /\ area = prefs[1] THEN StudentFirst
  ELSE IF Len(prefs) > 1 /\ area = prefs[2] THEN StudentSecond
  ELSE IF Len(prefs) > 2 /\ area = prefs[3] THEN StudentThird
  ELSE -StudentPenalty

\* faulty variant: the fifth area of a supervisor is not scored
supervisor_points_four_tiers(supervisor, area) ==
  LET prefs == supervisor_preferences[supervisor] IN
  IF Len(prefs) > 0 /\ area = prefs[1] THEN SupervisorFirst
  ELSE IF Len(prefs) > 1 /\ area = prefs[2] THEN SupervisorSecond
  ELSE IF Len(prefs) > 2 /\ area = prefs[3] THEN SupervisorThird
  ELSE IF Len(prefs) > 3 /\ area = prefs[4] THEN SupervisorFourth
  ELSE -SupervisorPenalty

\* faulty variant: a supervisor's first choice outweighs the student's penalty
supervisor_points_heavy_first(supervisor, area) ==
  LET prefs == supervisor_preferences[supervisor] IN
  IF Len(prefs) > 0 /\ area = prefs[1] THEN SupervisorFirst + StudentPenalty
  ELSE IF Len(prefs) > 1 /\ area = prefs[2] THEN SupervisorSecond
  ELSE IF Len(prefs) > 2 /\ area = prefs[3] THEN SupervisorThird
  ELSE IF Len(prefs) > 3 /\ area = prefs[4] THEN SupervisorFourth
  ELSE IF Len(prefs) > 4 /\ area = prefs[5] THEN SupervisorFifth
  ELSE -SupervisorPenalty

supervisor_points(supervisor, area) ==
  LET prefs == supervisor_preferences[supervisor] IN
  IF Len(prefs) > 0 /\ area = prefs[1] THEN SupervisorFirst
  ELSE IF Len(prefs) > 1 /\ area = prefs[2] THEN SupervisorSecond
  ELSE IF Len(prefs) > 2 /\ area = prefs[3] THEN SupervisorThird
  ELSE IF Len(prefs) > 3 /\ area = prefs[4] THEN SupervisorFourth
  ELSE IF Len(prefs) > 4 /\ area = prefs[5] THEN SupervisorFifth
  ELSE -SupervisorPenalty

\* satisfaction[(student, supervisor, area)]
edge_weight(student, supervisor, area) ==
  student_points(student, area) + supervisor_points(supervisor, area)

\* step 9: the edges whose variable is fixed to 0
is_forbidden(weight) == weight = -Forbidden

Build ==
  /\ pc = "build"
  /\ x_keys' = Triples
  /\ satisfaction' =
       [i \in DOMAIN Triples |-> edge_weight(Triples[i][1], Triples[i][2], Triples[i][3])]
  /\ forced_zero' = {i \in DOMAIN Triples : is_forbidden(satisfaction'[i])}
  /\ varValue' = [i \in DOMAIN Triples |-> None]
  /\ pc' = "solve"
  /\ UNCHANGED <<supervisors, students, workload, areas, supervisor_preferences,
                 student_preferences, status, objective, results,
                 total_satisfaction, assigned_count, student_hist, unmatched,
                 supervisors_with_capacity, norm_vars>>

\* ------------------------------------------------------ steps 10-11: solve
RECURSIVE lpSum(_, _)
\* the sum of f over the indices S
lpSum(f, S) ==
  IF S = {} THEN 0
  ELSE LET i == CHOOSE u \in S : TRUE IN f[i] + lpSum(f, S \ {i})

\* the variables of a student, of a supervisor
of_student(s) == {i \in DOMAIN x_keys : x_keys[i][1] = s}
of_supervisor(p) == {i \in DOMAIN x_keys : x_keys[i][2] = p}

\* step 6: sum of satisfaction * x over all triples, at the values x
objective_value(x) ==
  lpSum([i \in DOMAIN x_keys |-> satisfaction[i] * x[i]], DOMAIN x_keys)

\* faulty variant: the bound of step 7 is 2
student_constraint_at_most_two(x) ==
  \A s \in Students : lpSum(x, of_student(s)) <= 2

\* faulty variant: the bound of step 8 is one too large
supervisor_constraint_off_by_one(x) ==
  \A p \in Supervisors : lpSum(x, of_supervisor(p)) <= workload[p] + 1

\* step 7: each student's variables sum to at most 1
student_constraint(x) == \A s \in Students : lpSum(x, of_student(s)) <= 1

\* step 8: each supervisor's variables sum to at most the workload
supervisor_constraint(x) ==
  \A p \in Supervisors : lpSum(x, of_supervisor(p)) <= workload[p]

\* step 9: x == 0 for the forbidden edges
eligibility_constraint(x) == \A i \in forced_zero : x[i] = 0

\* LpBinary: every variable is 0 or 1
Assignments == [DOMAIN x_keys -> {0, 1}]
\* the assignments that satisfy step 9: 0 on forced_zero, 0 or 1 elsewhere
Eligible ==
  {[i \in DOMAIN x_keys |-> IF i \in forced_zero THEN 0 ELSE y[i]] :
     y \in [DOMAIN x_keys \ forced_zero -> {0, 1}]}
Feasible ==
  {x \in Eligible :
     eligibility_constraint(x) /\ student_constraint(x) /\ supervisor_constraint(x)}
\* the feasible assignments F of the largest objective value
Optimal(F) ==
  LET value == [x \in F |-> objective_value(x)]
  IN  {x \in F : \A y \in F : value[y] <= value[x]}

\* prob.solve(): the solver is a black box.  A feasible model has a bounded
\* optimum and the solver returns any optimal 0/1 assignment; an infeasible
\* model leaves the variables unset or at whatever values the solver stopped at.
Solve ==
  /\ pc = "solve"
  /\ LET F == Feasible IN
     IF F # {}
     THEN /\ status' = "Optimal"
          /\ \E x \in Optimal(F) :
               /\ varValue' = x
               /\ objective' = objective_value(x)
     ELSE /\ status' = "Infeasible"
          /\ \/ /\ varValue' = [i \in DOMAIN x_keys |-> None]
                /\ objective' = None
             \/ \E x \in Assignments :
                  /\ varValue' = x
                  /\ objective' = objective_value(x)
  /\ pc' = "export"
  /\ UNCHANGED <<supervisors, students, workload, areas, supervisor_preferences,
                 student_preferences, x_keys, satisfaction, forced_zero, results,
                 total_satisfaction, assigned_count, student_hist, unmatched,
                 supervisors_with_capacity, norm_vars>>

\* --------------------------------------------- steps 12-13: display, export
\* faulty variant: the threshold is 1, which no 0/1 value exceeds
is_selected_above_one(val) == val # None /\ val > 1

\* val is not None and val > 0.5
is_selected(val) == val # None /\ 2 * val > 1

selected_edges == {i \in DOMAIN x_keys : is_selected(varValue[i])}

\* the student's choice number of an area: 1, 2, 3 or None
student_choice(student, area) ==
  LET prefs == student_preferences[student] IN
  IF Len(prefs) > 0 /\ area = prefs[1] THEN 1
  ELSE IF Len(prefs) > 1 /\ area = prefs[2] THEN 2
  ELSE IF Len(prefs) > 2 /\ area = prefs[3] THEN 3
  ELSE None

Export ==
  /\ pc = "export"
  /\ results' = {[student |-> x_keys[i][1], supervisor |-> x_keys[i][2],
                  area |-> x_keys[i][3],
                  student_choice |-> student_choice(x_keys[i][1], x_keys[i][3])] :
                 i \in selected_edges}
  /\ pc' = "test"
  /\ UNCHANGED <<supervisors, students, workload, areas, supervisor_preferences,
                 student_preferences, x_keys, satisfaction, forced_zero, status,
                 varValue, objective, total_satisfaction, assigned_count,
                 student_hist, unmatched, supervisors_with_capacity, norm_vars>>

\* ------------------------------------------------- step 14: test the solution
choice_count(c) ==
  Cardinality({i \in selected_edges : student_choice(x_keys[i][1], x_keys[i][3]) = c})

Test ==
  /\ pc = "test"
  /\ total_satisfaction' = lpSum(satisfaction, selected_edges)
  /\ assigned_count' =
       [p \in Supervisors |-> Cardinality(selected_edges \cap of_supervisor(p))]
  /\ student_hist' = [first |-> choice_count(1), second |-> choice_count(2),
                      third |-> choice_count(3), other |-> choice_count(None)]
  /\ unmatched' = {s \in Students : selected_edges \cap of_student(s) = {}}
  /\ supervisors_with_capacity' =
       {<<p, workload[p] - assigned_count'[p]>> :
          p \in {q \in Supervisors : assigned_count'[q] < workload[q]}}
  /\ pc' = "done"
  /\ UNCHANGED <<supervisors, students, workload, areas, supervisor_preferences,
                 student_preferences, x_keys, satisfaction, forced_zero, status,
                 varValue, objective, results, norm_vars>>

\* ------------------------------------------------------ normalize_area alone
Normalize ==
  /\ pc = "normalize"
  /\ out' = normalize_area(text)
  /\ other_out' = normalize_area(other_text)
  /\ pc' = "normalize again"
  /\ UNCHANGED <<supervisors, students, workload, areas, supervisor_preferences,
                 student_preferences, x_keys, satisfaction, forced_zero, status,
                 varValue, objective, results, total_satisfaction, assigned_count,
                 student_hist, unmatched, supervisors_with_capacity,
                 text, other_text, out_twice>>

NormalizeAgain ==
  /\ pc = "normalize again"
  /\ out_twice' = normalize_area(out)
  /\ pc' = "normalized"
  /\ UNCHANGED <<supervisors, students, workload, areas, supervisor_preferences,
                 student_preferences, x_keys, satisfaction, forced_zero, status,
                 varValue, objective, results, total_satisfaction, assigned_count,
                 student_hist, unmatched, supervisors_with_capacity,
                 text, other_text, out, other_out>>

\* ------------------------------------------------------------ specifications
\* the state of the script before line 25 runs, the sheets apart
Unset ==
  /\ workload = <<>> /\ areas = <<>> /\ x_keys = <<>>
  /\ supervisor_preferences = <<>> /\ student_preferences = <<>>
  /\ satisfaction = <<>> /\ forced_zero = {}
  /\ status = "Not Solved" /\ varValue = <<>> /\ objective = None
  /\ results = {} /\ total_satisfaction = 0 /\ assigned_count = <<>>
  /\ student_hist = <<>> /\ unmatched = {} /\ supervisors_with_capacity = {}

NormIdle ==
  /\ text = NaN /\ other_text = NaN
  /\ out = NaN /\ out_twice = NaN /\ other_out = NaN

\* a full run: every workload >= 0
Init ==
  /\ pc = "load"
  /\ students \in [Students -> PrefixRows(NumProposalCols, MaxProposals, StudentLabels)]
  /\ supervisors \in
       [Supervisors ->
          [workload : 0..MaxWorkload,
           area : PrefixRows(NumAreaCols, MaxSupervisorAreas, SupervisorLabels)]]
  /\ Unset /\ NormIdle

\* a run on a sheet with a negative workload
InitInfeasible ==
  /\ pc = "load"
  /\ students \in [Students -> PrefixRows(NumProposalCols, MaxProposals, StudentLabels)]
  /\ supervisors \in
       [Supervisors ->
          [workload : (-1)..MaxWorkload,
           area : PrefixRows(NumAreaCols, MaxSupervisorAreas, SupervisorLabels)]]
  /\ \E p \in Supervisors : supervisors[p].workload < 0
  /\ Unset /\ NormIdle

\* a run that scores every row one student and one supervisor can fill in
InitScore ==
  /\ pc = "load"
  /\ students \in {[s \in Students |-> IF s = "Alice" THEN row ELSE EmptyRow(NumProposalCols)] :
                     row \in AllRows(NumProposalCols, StudentLabels)}
  /\ supervisors \in
       {[p \in Supervisors |->
           IF p = "Prof. Smith" THEN [workload |-> 1, area |-> row]
           ELSE [workload |-> 0, area |-> EmptyRow(NumAreaCols)]] :
        row \in AllRows(NumAreaCols, SupervisorLabels)}
  /\ Unset /\ NormIdle

NormAlphabet == {"A", "a", "b", "1", " ", ".", ","}
Examples ==
  {Str(<<"A", "r", "e", "a", " ", "1", ".">>),
   Str(<<"a", "r", "e", "a", "1">>),
   Str(<<" ", "A", "R", "E", "A", ",", " ", "1">>)}
Texts ==
  {Str(s) : s \in UNION {[1..n -> NormAlphabet] : n \in 0..MaxLen}}
    \cup Examples \cup {NaN, IntCell}

InitNorm ==
  /\ pc = "normalize"
  /\ text \in Texts /\ other_text \in Texts
  /\ out = NaN /\ out_twice = NaN /\ other_out = NaN
  /\ students = <<>> /\ supervisors = <<>>
  /\ Unset

Next == Load \/ Build \/ Solve \/ Export \/ Test
NextNorm == Normalize \/ NormalizeAgain

Spec == Init /\ [][Next]_vars
SpecInfeasible == InitInfeasible /\ [][Next]_vars
SpecScore == InitScore /\ [][Next]_vars
SpecNorm == InitNorm /\ [][NextNorm]_vars

\* ------------------------------------------------------------------ claims
\* an area is named in a preference sequence
InPreferences(area, prefs) == \E k \in 1..Len(prefs) : prefs[k] = area

\* the area of the edge is in both endpoints' preference sequences
MutuallyEligible(key) ==
  /\ InPreferences(key[3], student_preferences[key[1]])
  /\ InPreferences(key[3], supervisor_preferences[key[2]])

Built == pc \in {"solve", "export", "test", "done"}
Solved == pc = "done" /\ status = "Optimal"
rows_of_student(s) == {r \in results : r.student = s}
rows_of_supervisor(p) == {r \in results : r.supervisor = p}
\* the student and the supervisor have an area in common
SharesArea(s, p) ==
  \E k \in 1..Len(student_preferences[s]) :
    InPreferences(student_preferences[s][k], supervisor_preferences[p])

\* C1: in every assignment the solver returns, every selected edge has its
\* area in both the student's and the supervisor's preference sequence.
C1_SelectedEdgesMutuallyEligible ==
  Solved => \A i \in selected_edges : MutuallyEligible(x_keys[i])

\* C2: in a solved assignment every student is in at most one selected edge,
\* over all supervisors and areas, and a student in none is listed as unmatched.
C2_StudentInAtMostOneEdge ==
  Solved =>
    \A s \in Students :
      /\ Cardinality(selected_edges \cap of_student(s)) <= 1
      /\ Cardinality(rows_of_student(s)) <= 1
      /\ (rows_of_student(s) = {}) <=> (s \in unmatched)

\* C2 witness: two students compete for one place; one is matched, the other
\* is listed as unmatched although an eligible edge of positive weight exists.
C2_Witness ==
  /\ Solved
  /\ \E s \in Students : Cardinality(rows_of_student(s)) = 1
  /\ \E s \in unmatched :
       \E i \in of_student(s) : satisfaction[i] > 0 /\ i \notin forced_zero

\* C3: in a solved assignment no supervisor has more selected edges than the
\* workload, a supervisor of workload 0 is in no selected edge, and the
\* remaining capacity that is reported is never negative.
C3_SupervisorWithinCapacity ==
  Solved =>
    /\ \A p \in Supervisors :
         /\ assigned_count[p] <= workload[p]
         /\ Cardinality(rows_of_supervisor(p)) <= workload[p]
         /\ workload[p] = 0 => rows_of_supervisor(p) = {}
    /\ \A c \in supervisors_with_capacity : c[2] >= 0

\* C3 witness: a supervisor of workload 0 shares an area with a student and
\* stays out of the result, while another supervisor is at full load.
C3_Witness ==
  /\ Solved
  /\ \E p \in Supervisors :
       /\ workload[p] = 0
       /\ \E i \in of_supervisor(p) : satisfaction[i] > 0
  /\ \E p \in Supervisors : workload[p] > 0 /\ assigned_count[p] = workload[p]

\* C4: a student who shares no area with any supervisor has no selected edge
\* in any optimal solution and is in the unmatched list.
C4_NoSharedAreaUnmatched ==
  Solved =>
    \A s \in Students :
      (\A p \in Supervisors : ~SharesArea(s, p)) =>
        /\ selected_edges \cap of_student(s) = {}
        /\ rows_of_student(s) = {}
        /\ s \in unmatched

\* C4 witness: a student with preferences shares no area with any supervisor,
\* has an edge that step 9 does not forbid to a supervisor with a free place,
\* and is unmatched.
C4_Witness ==
  /\ Solved
  /\ \E s \in Students :
       /\ Len(student_preferences[s]) > 0
       /\ \A p \in Supervisors : ~SharesArea(s, p)
       /\ \E i \in of_student(s) :
            /\ i \notin forced_zero
            /\ assigned_count[x_keys[i][2]] < workload[x_keys[i][2]]
       /\ s \in unmatched

\* C5: an edge whose area is absent from either side's preference list has
\* weight exactly -20, so the test weight == -20 finds exactly the edges that
\* are not mutually eligible.
C5_IneligibleEdgeScoresMinus20 ==
  Built =>
    \A i \in DOMAIN x_keys :
      /\ ~MutuallyEligible(x_keys[i]) => satisfaction[i] = -20
      /\ (i \in forced_zero) <=> ~MutuallyEligible(x_keys[i])

\* C6: when the status is not Optimal no assignment row is reported or written
\* to the sheet "matches".
C6_NoRowsUnlessOptimal ==
  (pc \in {"test", "done"} /\ status # "Optimal") => results = {}

\* C7: the total satisfaction recomputed over the edges of value > 0.5 equals
\* the value of the objective at the returned assignment.
C7_TotalEqualsObjective ==
  Solved => total_satisfaction = objective

\* C7 witness: a solved run with a selected edge and an edge of non-zero
\* weight that is not selected.
C7_Witness ==
  /\ Solved
  /\ total_satisfaction > 0
  /\ \E i \in DOMAIN x_keys : i \notin selected_edges /\ satisfaction[i] > 0

\* C8 as stated: every mutually eligible edge has a weight of 11 to 15.
C8_ValidWeightFrom11To15 ==
  Built =>
    \A i \in DOMAIN x_keys :
      MutuallyEligible(x_keys[i]) => (11 <= satisfaction[i] /\ satisfaction[i] <= 15)

\* the area is one of the first three preferences of the student
InFirstThree(area, prefs) == \E k \in 1..Min(3, Len(prefs)) : prefs[k] = area

\* C8 amended: every edge whose area is among the student's first three
\* preferences and in the supervisor's preference sequence has a weight of
\* 6 to 15.
C8_ValidWeightFrom6To15 ==
  Built =>
    \A i \in DOMAIN x_keys :
      (/\ InFirstThree(x_keys[i][3], student_preferences[x_keys[i][1]])
       /\ InPreferences(x_keys[i][3], supervisor_preferences[x_keys[i][2]]))
      => (6 <= satisfaction[i] /\ satisfaction[i] <= 15)

\* C8 witness: the student's third and the supervisor's fifth choice meet at
\* weight 6, and a first choice of both at weight 15.
C8_Witness ==
  /\ Built
  /\ \E i \in DOMAIN x_keys : MutuallyEligible(x_keys[i]) /\ satisfaction[i] = 6
  /\ \E i \in DOMAIN x_keys : MutuallyEligible(x_keys[i]) /\ satisfaction[i] = 15

\* C10: with every workload >= 0 the model is feasible and the optimum is
\* >= 0; no selected edge has a negative weight, every exported row has the
\* student's choice 1, 2 or 3, and the student histogram counts no Other.
C10_NoNegativeEdgeSelected ==
  (pc = "done" /\ \A p \in Supervisors : workload[p] >= 0) =>
    /\ status = "Optimal"
    /\ objective >= 0
    /\ \A i \in selected_edges : satisfaction[i] >= 0
    /\ \A r \in results : r.student_choice \in {1, 2, 3}
    /\ student_hist.other = 0

\* C10 witness: a solved run with an exported row in which an edge of negative
\* weight that step 9 does not forbid stays unselected although its student is
\* unmatched and its supervisor has a free place.
C10_Witness ==
  /\ Solved
  /\ results # {}
  /\ \E i \in DOMAIN x_keys :
       /\ satisfaction[i] < 0 /\ i \notin forced_zero
       /\ x_keys[i][1] \in unmatched
       /\ assigned_count[x_keys[i][2]] < workload[x_keys[i][2]]

\* the characters the normalisation ignores, and the letters in both cases
IgnoredChars == {"0", "1", "2", "7", " ", "\t", ".", ","}
CasePairs == {<<"A", "a">>, <<"B", "b">>, <<"E", "e">>, <<"R", "r">>}
SameLetter(c, d) == c = d \/ <<c, d>> \in CasePairs \/ <<d, c>> \in CasePairs
NotIgnored(c) == c \notin IgnoredChars
\* two strings differ only in digits, whitespace, periods, commas and case
DifferOnlyInFormat(a, b) ==
  /\ isinstance_str(a) /\ isinstance_str(b)
  /\ LET la == SelectSeq(a.val, NotIgnored)
         lb == SelectSeq(b.val, NotIgnored)
     IN  /\ Len(la) = Len(lb)
         /\ \A k \in 1..Len(la) : SameLetter(la[k], lb[k])

\* C9: normalize_area is idempotent, maps strings that differ only in digits,
\* whitespace, periods, commas and letter case to the same value ("Area 1.",
\* "area1" and " AREA, 1" among them), and returns a non-string unchanged.
C9_NormalizeIdempotentInsensitive ==
  pc = "normalized" =>
    /\ out_twice = out
    /\ DifferOnlyInFormat(text, other_text) => out = other_out
    /\ (text \in Examples /\ other_text \in Examples) => out = other_out
    /\ ~isinstance_str(text) => out = text

\* C9 witness: "Area 1." and " AREA, 1" are both normalised to "area", which
\* normalises to itself.
C9_Witness ==
  /\ pc = "normalized"
  /\ text = Str(<<"A", "r", "e", "a", " ", "1", ".">>)
  /\ other_text = Str(<<" ", "A", "R", "E", "A", ",", " ", "1">>)
  /\ out = Str(<<"a", "r", "e", "a">>)
  /\ other_out = out /\ out_twice = out

====
